---- MODULE Spec2Model ----
(***************************************************************************)
(* The OncoGraph assistant.  KnowledgeGraphService: the intent classifier   *)
(* (analyzeQueryIntent), the subgraph extractor (queryKnowledgeGraph,      *)
(* handleSpecificGeneRequest, findDirectMatches) and the prompt formatter  *)
(* (formatKnowledgeForAI).  App: the chat turn (handleSendMessage) with    *)
(* its API key checks, its one request and its error messages.             *)
(*                                                                         *)
(* A JavaScript string is a sequence of one-character strings, so that     *)
(* String.includes, toLowerCase, toUpperCase and replace are computed      *)
(* character by character, as the code computes them.                      *)
(***************************************************************************)
EXTENDS Integers, Sequences, FiniteSets, TLC

VARIABLES kg, userQuery, result, knowledgeContext, pc,
          apiKey, openai, messages, isTyping, pending, error, now

serviceVars == <<kg, userQuery, result, knowledgeContext, pc>>
appVars == <<apiKey, openai, messages, isTyping, pending, error, now>>
vars == <<kg, userQuery, result, knowledgeContext, pc,
          apiKey, openai, messages, isTyping, pending, error, now>>

(***************************************************************************)
(* Strings                                                                 *)
(***************************************************************************)
UpperChars == <<"A","B","C","D","E","F","G","H","I","J","K","L","M","N","O","P","Q","R","S","T","U","V","W","X","Y","Z">>
LowerChars == <<"a","b","c","d","e","f","g","h","i","j","k","l","m","n","o","p","q","r","s","t","u","v","w","x","y","z">>
DigitChars == <<"0","1","2","3","4","5","6","7","8","9">>

\* the same string as a tuple, computed once
Tuple(f) == SubSeq(f, 1, Len(f))

toLowerCaseChar(c) ==
  IF \E k \in 1..Len(UpperChars) : UpperChars[k] = c
    THEN LowerChars[CHOOSE k \in 1..Len(UpperChars) : UpperChars[k] = c]
    ELSE c

toUpperCaseChar(c) ==
  IF \E k \in 1..Len(LowerChars) : LowerChars[k] = c
    THEN UpperChars[CHOOSE k \in 1..Len(LowerChars) : LowerChars[k] = c]
    ELSE c

\* String.prototype.toLowerCase
toLowerCase(s) == Tuple([i \in 1..Len(s) |-> toLowerCaseChar(s[i])])

\* String.prototype.toUpperCase
toUpperCase(s) == Tuple([i \in 1..Len(s) |-> toUpperCaseChar(s[i])])

\* String.prototype.includes: t occurs in s as a contiguous substring
includes(s, t) ==
  \E i \in 0..(Len(s) - Len(t)) : \A j \in 1..Len(t) : s[i + j] = t[j]

\* Array.prototype.forEach with a body that updates the accumulator acc; each
\* iteration's accumulator is evaluated before the next iteration starts
RECURSIVE forEach(_, _, _, _)
forEach(arr, Body(_, _), acc, i) ==
  IF i > Len(arr) THEN acc
  ELSE LET next == Body(acc, arr[i])
       IN IF next = next THEN forEach(arr, Body, next, i + 1) ELSE acc

\* Array.prototype.includes on an array of strings
arrayIncludes(arr, x) == \E i \in 1..Len(arr) : arr[i] = x

\* Array.prototype.some(phrase => s.includes(phrase))
includesAny(s, phrases) == \E i \in 1..Len(phrases) : includes(s, phrases[i])

RECURSIVE join(_, _)
\* Array.prototype.join
join(arr, sep) ==
  IF Len(arr) = 0 THEN <<>>
  ELSE IF Len(arr) = 1 THEN arr[1]
  ELSE arr[1] \o sep \o join(Tail(arr), sep)

\* query.replace(/[^a-z0-9]/g, '')
stripNonAlnum(s) ==
  SelectSeq(s, LAMBDA c : (\E k \in 1..Len(LowerChars) : LowerChars[k] = c)
                          \/ (\E k \in 1..Len(DigitChars) : DigitChars[k] = c))

\* String.prototype.replace(pattern, by) with a string pattern of one
\* character: only the first occurrence is replaced
replaceFirst(s, pat, by) ==
  IF \E i \in 1..Len(s) : s[i] = pat
    THEN LET p == CHOOSE i \in 1..Len(s) :
                    s[i] = pat /\ \A j \in 1..(i - 1) : s[j] # pat
         IN [i \in 1..Len(s) |-> IF i = p THEN by ELSE s[i]]
    ELSE s

RECURSIVE Digits(_)
\* decimal spelling of a natural number
Digits(n) ==
  IF n < 10 THEN <<DigitChars[n + 1]>>
  ELSE Digits(n \div 10) \o <<DigitChars[(n % 10) + 1]>>

\* s.startsWith(t)
startsWith(s, t) == Len(s) >= Len(t) /\ \A j \in 1..Len(t) : s[j] = t[j]

\* white space removed by String.prototype.trim
WhiteSpace == {" ", "\t", "\n"}

RECURSIVE trimStart(_)
trimStart(s) ==
  IF s # <<>> /\ Head(s) \in WhiteSpace THEN trimStart(Tail(s)) ELSE s

RECURSIVE trimEnd(_)
trimEnd(s) ==
  IF s # <<>> /\ s[Len(s)] \in WhiteSpace THEN trimEnd(SubSeq(s, 1, Len(s) - 1)) ELSE s

\* s.trim()
trim(s) == trimEnd(trimStart(s))

(***************************************************************************)
(* Entity types and the fixed tables of the classifier                     *)
(***************************************************************************)
T_disease   == <<"d","i","s","e","a","s","e">>
T_gene      == <<"g","e","n","e">>
T_pathway   == <<"p","a","t","h","w","a","y">>
T_biomarker == <<"b","i","o","m","a","r","k","e","r">>
T_drug      == <<"d","r","u","g">>

NodeTypes == {T_disease, T_gene, T_pathway, T_biomarker, T_drug}

singularRequests ==
  << <<"o","n","e"," ","g","e","n","e">>, <<"a"," ","g","e","n","e">>, <<"s","i","n","g","l","e"," ","g","e","n","e">>, <<"n","a","m","e"," ","t","h","e"," ","g","e","n","e">>,
     <<"w","h","i","c","h"," ","g","e","n","e">>, <<"w","h","a","t"," ","g","e","n","e">>, <<"a","n","y"," ","g","e","n","e">>, <<"o","n","e"," ","s","p","e","c","i","f","i","c"," ","g","e","n","e">> >>

knownGenes ==
  << <<"F","G","F","R","1">>, <<"M","Y","C">>, <<"E","G","F","R">>, <<"K","R","A","S">>, <<"T","P","5","3">>, <<"B","R","C","A","1">>, <<"B","R","C","A","2">>,
     <<"H","E","R","2">>, <<"E","R","B","B","2">>, <<"P","I","K","3","C","A">>, <<"A","L","K">>, <<"R","O","S","1">>, <<"R","E","T">>, <<"M","E","T">>,
     <<"B","R","A","F">>, <<"A","P","C">>, <<"A","R">>, <<"N","R","A","S">>, <<"C","D","K","N","2","A">>, <<"S","M","A","D","4">>, <<"M","L","H","1">> >>

geneKeywords      == << <<"g","e","n","e">>, <<"g","e","n","e","s">> >>
drugKeywords      == << <<"d","r","u","g">>, <<"d","r","u","g","s">>, <<"t","r","e","a","t","m","e","n","t">>, <<"t","h","e","r","a","p","y">>, <<"a","s","s","o","c","i","a","t","e","d"," ","d","r","u","g","s">> >>
pathwayKeywords   == << <<"p","a","t","h","w","a","y">>, <<"p","a","t","h","w","a","y","s">>, <<"s","i","g","n","a","l","i","n","g">>, <<"a","s","s","o","c","i","a","t","e","d"," ","p","a","t","h","w","a","y","s">> >>
biomarkerKeywords == << <<"b","i","o","m","a","r","k","e","r">>, <<"b","i","o","m","a","r","k","e","r","s">>, <<"m","a","r","k","e","r">>, <<"a","s","s","o","c","i","a","t","e","d"," ","b","i","o","m","a","r","k","e","r","s">> >>

diseasePhrases ==
  << <<"b","r","e","a","s","t"," ","c","a","n","c","e","r">>, <<"l","u","n","g"," ","c","a","n","c","e","r">>, <<"c","o","l","o","r","e","c","t","a","l"," ","c","a","n","c","e","r">>,
     <<"p","a","n","c","r","e","a","t","i","c"," ","c","a","n","c","e","r">>, <<"p","r","o","s","t","a","t","e"," ","c","a","n","c","e","r">>, <<"m","e","l","a","n","o","m","a">>, <<"o","v","a","r","i","a","n"," ","c","a","n","c","e","r">> >>

biologicalTerms ==
  << <<"e","g","f","r">>, <<"k","r","a","s">>, <<"t","p","5","3">>, <<"b","r","c","a","1">>, <<"b","r","c","a","2">>, <<"h","e","r","2">>, <<"e","r","b","b","2">>,
     <<"p","i","k","3","c","a">>, <<"a","l","k">>, <<"r","o","s","1">>, <<"r","e","t">>, <<"m","e","t">>, <<"b","r","a","f">>, <<"f","g","f","r","1">>, <<"m","y","c">>,
     <<"p","i","3","k">>, <<"a","k","t">>, <<"m","a","p","k">>, <<"r","a","s">>, <<"p","5","3">>, <<"w","n","t">>, <<"n","o","t","c","h">>, <<"j","a","k">>,
     <<"s","t","a","t">>, <<"m","t","o","r">>, <<"n","f","-","k","b">>, <<"f","g","f","r">>,
     <<"t","r","a","s","t","u","z","u","m","a","b">>, <<"o","s","i","m","e","r","t","i","n","i","b">>, <<"g","e","f","i","t","i","n","i","b">>, <<"e","r","l","o","t","i","n","i","b">>,
     <<"c","r","i","z","o","t","i","n","i","b">>, <<"l","a","p","a","t","i","n","i","b">>, <<"t","a","m","o","x","i","f","e","n">>, <<"o","l","a","p","a","r","i","b">>,
     <<"l","u","n","g"," ","c","a","n","c","e","r">>, <<"b","r","e","a","s","t"," ","c","a","n","c","e","r">>, <<"n","s","c","l","c">>, <<"s","c","l","c">>,
     <<"p","a","t","h","w","a","y">>, <<"s","i","g","n","a","l","i","n","g">>, <<"m","u","t","a","t","i","o","n">>, <<"i","n","h","i","b","i","t","o","r">>, <<"r","e","c","e","p","t","o","r">>, <<"k","i","n","a","s","e">> >>

\* Object.entries(diseaseGeneMap), in insertion order
diseaseGeneMap ==
  << [disease |-> <<"b","r","e","a","s","t"," ","c","a","n","c","e","r">>,
      genes |-> << <<"B","R","C","A","1">>, <<"B","R","C","A","2">>, <<"E","R","B","B","2">>, <<"P","I","K","3","C","A">>, <<"E","S","R","1">>, <<"T","P","5","3">> >>],
     [disease |-> <<"l","u","n","g"," ","c","a","n","c","e","r">>,
      genes |-> << <<"E","G","F","R">>, <<"K","R","A","S">>, <<"A","L","K">>, <<"R","O","S","1">>, <<"M","E","T">>, <<"B","R","A","F">> >>],
     [disease |-> <<"c","o","l","o","r","e","c","t","a","l"," ","c","a","n","c","e","r">>,
      genes |-> << <<"A","P","C">>, <<"K","R","A","S">>, <<"P","I","K","3","C","A">>, <<"T","P","5","3">>, <<"M","L","H","1">> >>],
     [disease |-> <<"p","a","n","c","r","e","a","t","i","c"," ","c","a","n","c","e","r">>,
      genes |-> << <<"K","R","A","S">>, <<"T","P","5","3">>, <<"S","M","A","D","4">>, <<"P","I","K","3","C","A">> >>],
     [disease |-> <<"p","r","o","s","t","a","t","e"," ","c","a","n","c","e","r">>,
      genes |-> << <<"A","R">>, <<"T","P","5","3">>, <<"P","I","K","3","C","A">> >>],
     [disease |-> <<"m","e","l","a","n","o","m","a">>,
      genes |-> << <<"B","R","A","F">>, <<"N","R","A","S">>, <<"C","D","K","N","2","A">>, <<"T","P","5","3">> >>],
     [disease |-> <<"o","v","a","r","i","a","n"," ","c","a","n","c","e","r">>,
      genes |-> << <<"B","R","C","A","1">>, <<"B","R","C","A","2">>, <<"T","P","5","3">>, <<"P","I","K","3","C","A">> >>],
     [disease |-> <<"c","a","n","c","e","r">>,
      genes |-> << <<"T","P","5","3">>, <<"K","R","A","S">>, <<"E","G","F","R">>, <<"M","Y","C">>, <<"B","R","C","A","1">> >>] >>

\* this.contextInfo: the static header (its first line stands for the block)
contextInfo == <<"\n","E","N","H","A","N","C","E","D"," ","O","N","C","O","L","O","G","Y"," ","K","N","O","W","L","E","D","G","E"," ","G","R","A","P","H"," ","v","2",".","0",":","\n">>

noInformation == <<"N","o"," ","r","e","l","e","v","a","n","t"," ","i","n","f","o","r","m","a","t","i","o","n"," ","f","o","u","n","d"," ","i","n"," ","t","h","e"," ","k","n","o","w","l","e","d","g","e"," ","g","r","a","p","h",".">>

(***************************************************************************)
(* Intent classifier                                                       *)
(***************************************************************************)
\* matchKnownGenes comparing the query as it is, without the case conversions
matchKnownGenesCaseSensitive(query) ==
  SelectSeq(knownGenes, LAMBDA gene : includes(query, gene))

\* knownGenes.filter(gene => query.toUpperCase().includes(gene) ||
\*                           query.toLowerCase().includes(gene.toLowerCase()))
matchKnownGenes(query) ==
  LET upper == toUpperCase(query)
      lower == toLowerCase(query)
  IN SelectSeq(knownGenes,
               LAMBDA gene : includes(upper, gene)
                             \/ includes(lower, toLowerCase(gene)))

\* biologicalTerms.filter(term => query.includes(term) ||
\*                                term.includes(query.replace(/[^a-z0-9]/g, '')))
extractSpecificTerms(query) ==
  LET stripped == stripNonAlnum(query)
  IN SelectSeq(biologicalTerms,
               LAMBDA term : includes(query, term) \/ includes(term, stripped))

\* the type keywords push onto wantedTypes in the order gene, drug, pathway,
\* biomarker; an extracted gene name counts as the gene keyword
keywordTypes(query, specificGenes) ==
  (IF includesAny(query, geneKeywords) \/ Len(specificGenes) > 0
     THEN <<T_gene>> ELSE <<>>)
  \o (IF includesAny(query, drugKeywords) THEN <<T_drug>> ELSE <<>>)
  \o (IF includesAny(query, pathwayKeywords) THEN <<T_pathway>> ELSE <<>>)
  \o (IF includesAny(query, biomarkerKeywords) THEN <<T_biomarker>> ELSE <<>>)

analyzeQueryIntent(query) ==
  LET limitToOne == includesAny(toLowerCase(query), singularRequests)
      found == matchKnownGenes(query)
      specificGenes == IF limitToOne /\ Len(found) > 1 THEN <<found[1]>> ELSE found
      kwTypes == keywordTypes(query, specificGenes)
      \* specific genes named and nothing wanted yet: everything connected
      geneTypes == IF Len(specificGenes) > 0 /\ Len(kwTypes) = 0
                     THEN kwTypes \o <<T_gene, T_pathway, T_drug, T_biomarker>>
                     ELSE kwTypes
      contextEntity ==
        IF includesAny(query, diseasePhrases) THEN "disease"
        ELSE IF Len(specificGenes) > 0 THEN "specific"
        ELSE IF Len(extractSpecificTerms(query)) > 0 THEN "specific"
        ELSE "general"
      inferTarget == includes(query, <<"t","a","r","g","e","t">>) \/ includes(query, <<"t","r","e","a","t","m","e","n","t">>)
      inferInvolve == includes(query, <<"i","n","v","o","l","v","e">>) \/ includes(query, <<"a","s","s","o","c","i","a","t","e","d">>)
  IN [ wantedTypes |->
         IF Len(geneTypes) > 0 THEN geneTypes
         ELSE IF inferTarget THEN <<T_drug, T_gene>>
         ELSE IF inferInvolve THEN <<T_gene, T_pathway>>
         ELSE <<T_gene, T_pathway, T_drug, T_biomarker>>,
       contextEntity |-> contextEntity,
       includeContext |->
         \/ Len(kwTypes) > 0
         \/ Len(specificGenes) > 0
         \/ (Len(geneTypes) = 0 /\ ~inferTarget /\ ~inferInvolve),
       specificGenes |-> specificGenes,
       limitToOne |-> limitToOne ]

(***************************************************************************)
(* Knowledge store: this.kg, read through the helpers below                *)
(***************************************************************************)
\* node.label?.toLowerCase() || ''
nodeLabelLower(node) == toLowerCase(node.label)

\* node.properties?.aliases || []
nodeAliases(node) == IF node.hasAliases THEN node.aliases ELSE <<>>

\* this.kg.nodes.find(n => n.id === id): the index of the first node with
\* that id, 0 for undefined
RECURSIVE findNodeIndexFrom(_, _)
findNodeIndexFrom(id, i) ==
  IF i > Len(kg.nodes) THEN 0
  ELSE IF kg.nodes[i].id = id THEN i
  ELSE findNodeIndexFrom(id, i + 1)

findNodeIndex(id) == findNodeIndexFrom(id, 1)

\* the node at the other end of relation seen from the node nodeId
\* (source checked first, then target), as an index into kg.nodes; 0 for null
connectedNodeIndex(relation, nodeId) ==
  IF relation.source = nodeId THEN findNodeIndex(relation.target)
  ELSE IF relation.target = nodeId THEN findNodeIndex(relation.source)
  ELSE 0

zeroCount == [t \in NodeTypes |-> 0]

\* filterRelations without the filter
filterRelationsKeepAll(relations, ids) == relations

\* relations.filter(r => ids.has(r.source) && ids.has(r.target))
filterRelations(relations, ids) ==
  SelectSeq(relations, LAMBDA r : r.source \in ids /\ r.target \in ids)

(***************************************************************************)
(* Direct-match fallback                                                   *)
(***************************************************************************)
\* directLabelMatches without the test on the label's length
directLabelMatchesAnyLength(query) ==
  SelectSeq(kg.nodes, LAMBDA node : includes(query, nodeLabelLower(node)))

\* first loop of findDirectMatches: every node whose lower-cased label is
\* longer than 2 and occurs in the query
directLabelMatches(query) ==
  SelectSeq(kg.nodes,
            LAMBDA node : Len(nodeLabelLower(node)) > 2
                          /\ includes(query, nodeLabelLower(node)))

\* body of the edge loop of findDirectMatches
directEdgeStep(acc, relation) ==
  IF (relation.source \in acc.ids \/ relation.target \in acc.ids)
     /\ Len(acc.nodes) < 8
    THEN LET t == findNodeIndex(relation.target)
         IN IF relation.source \in acc.ids /\ relation.target \notin acc.ids /\ t # 0
              THEN [nodes |-> Append(acc.nodes, kg.nodes[t]),
                    ids |-> acc.ids \cup {kg.nodes[t].id},
                    relations |-> Append(acc.relations, relation)]
              ELSE [acc EXCEPT !.relations = Append(acc.relations, relation)]
    ELSE acc

findDirectMatches(query) ==
  LET matched == directLabelMatches(query)
      start == [nodes |-> matched,
                ids |-> {matched[i].id : i \in 1..Len(matched)},
                relations |-> <<>>]
  IN IF Len(matched) > 0 THEN forEach(kg.edges, directEdgeStep, start, 1) ELSE start

(***************************************************************************)
(* Explicit-gene path                                                      *)
(***************************************************************************)
\* the first gene of the list that is a gene-typed node of the graph, as an
\* index into kg.nodes; 0 when none is
RECURSIVE firstAvailableGene(_, _)
firstAvailableGene(genes, i) ==
  IF i > Len(genes) THEN 0
  ELSE IF \E k \in 1..Len(kg.nodes) :
            kg.nodes[k].type = T_gene /\ toUpperCase(kg.nodes[k].label) = genes[i]
    THEN CHOOSE k \in 1..Len(kg.nodes) :
           /\ kg.nodes[k].type = T_gene /\ toUpperCase(kg.nodes[k].label) = genes[i]
           /\ \A j \in 1..(k - 1) :
                ~(kg.nodes[j].type = T_gene /\ toUpperCase(kg.nodes[j].label) = genes[i])
  ELSE firstAvailableGene(genes, i + 1)

\* only the first table entry whose disease occurs in the context is used,
\* and of it only the first gene present in the graph
findGenesRelatedToContext(context) ==
  LET contextLower == toLowerCase(context)
      hits == SelectSeq(diseaseGeneMap, LAMBDA e : includes(contextLower, e.disease))
      g == IF Len(hits) > 0 THEN firstAvailableGene(hits[1].genes, 1) ELSE 0
  IN IF g # 0 THEN <<kg.nodes[g]>> ELSE <<>>

\* body of the edge loop of addLimitedConnections
limitedStep(acc, gene, relation, wantedTypes, maxPerType) ==
  LET c == connectedNodeIndex(relation, gene.id)
  IN IF c # 0 /\ arrayIncludes(wantedTypes, kg.nodes[c].type)
        /\ kg.nodes[c].id \notin acc.ids
        /\ acc.count[kg.nodes[c].type] < maxPerType
       THEN [nodes |-> Append(acc.nodes, kg.nodes[c]),
             ids |-> acc.ids \cup {kg.nodes[c].id},
             relations |-> Append(acc.relations, relation),
             count |-> [acc.count EXCEPT ![kg.nodes[c].type] = @ + 1]]
       ELSE acc

\* its own counters, starting at zero; finalNodes, finalNodeIds and relations
\* are the caller's
addLimitedConnections(gene, wantedTypes, acc, maxPerType) ==
  [forEach(kg.edges,
           LAMBDA a, relation : limitedStep(a, gene, relation, wantedTypes, maxPerType),
           [acc EXCEPT !.count = zeroCount], 1)
     EXCEPT !.count = acc.count]

\* Step 1: the gene-typed nodes whose upper-cased label is a requested name
targetGenesOf(geneNames) ==
  SelectSeq(kg.nodes,
            LAMBDA node : node.type = T_gene
                          /\ arrayIncludes(geneNames, toUpperCase(node.label)))

\* limitToOne ? targetGenes.slice(0, 1) : targetGenes
genesToProcessOf(geneNames, limitToOne) ==
  LET targetGenes == targetGenesOf(geneNames)
  IN IF limitToOne /\ Len(targetGenes) > 1 THEN <<targetGenes[1]>> ELSE targetGenes

\* Step 2: body of the loop that adds the biomarkers named like a gene
biomarkerStep(acc, node, geneNames) ==
  IF node.type = T_biomarker
     /\ arrayIncludes(geneNames, toUpperCase(node.label))
     /\ node.id \notin acc.ids
    THEN [acc EXCEPT !.nodes = Append(acc.nodes, node), !.ids = acc.ids \cup {node.id}]
    ELSE acc

\* limitToOne ? 2 : 3
maxNodesPerType(limitToOne) == IF limitToOne THEN 2 ELSE 3

\* strictStep with the cap test off by one (<= for <)
strictStepOffByOne(acc, gene, relation, wantedTypes, limitToOne) ==
  LET c == connectedNodeIndex(relation, gene.id)
  IN IF c # 0 /\ arrayIncludes(wantedTypes, kg.nodes[c].type)
        /\ kg.nodes[c].id \notin acc.ids
        /\ acc.count[kg.nodes[c].type] <= maxNodesPerType(limitToOne)
       THEN [nodes |-> Append(acc.nodes, kg.nodes[c]),
             ids |-> acc.ids \cup {kg.nodes[c].id},
             relations |-> Append(acc.relations, relation),
             count |-> [acc.count EXCEPT ![kg.nodes[c].type] = @ + 1]]
       ELSE acc

\* strictStep recording every edge to a node of a wanted type, added or not
strictStepEveryRelation(acc, gene, relation, wantedTypes, limitToOne) ==
  LET c == connectedNodeIndex(relation, gene.id)
  IN IF c # 0 /\ arrayIncludes(wantedTypes, kg.nodes[c].type)
       THEN IF kg.nodes[c].id \notin acc.ids
               /\ acc.count[kg.nodes[c].type] < maxNodesPerType(limitToOne)
              THEN [nodes |-> Append(acc.nodes, kg.nodes[c]),
                    ids |-> acc.ids \cup {kg.nodes[c].id},
                    relations |-> Append(acc.relations, relation),
                    count |-> [acc.count EXCEPT ![kg.nodes[c].type] = @ + 1]]
              ELSE [acc EXCEPT !.relations = Append(acc.relations, relation)]
       ELSE acc

\* Step 3: body of the inner loop, one edge seen from one target gene
strictStep(acc, gene, relation, wantedTypes, limitToOne) ==
  LET c == connectedNodeIndex(relation, gene.id)
  IN IF c # 0 /\ arrayIncludes(wantedTypes, kg.nodes[c].type)
        /\ kg.nodes[c].id \notin acc.ids
        /\ acc.count[kg.nodes[c].type] < maxNodesPerType(limitToOne)
       THEN [nodes |-> Append(acc.nodes, kg.nodes[c]),
             ids |-> acc.ids \cup {kg.nodes[c].id},
             relations |-> Append(acc.relations, relation),
             count |-> [acc.count EXCEPT ![kg.nodes[c].type] = @ + 1]]
       ELSE acc

\* strictLoop with counters that start again at zero for every gene
strictLoopPerGene(acc, genes, wantedTypes, limitToOne) ==
  forEach(genes,
          LAMBDA a, gene :
            forEach(kg.edges,
                    LAMBDA b, relation : strictStep(b, gene, relation, wantedTypes, limitToOne),
                    [a EXCEPT !.count = zeroCount], 1),
          acc, 1)

\* genesToProcess.forEach(gene => this.kg.edges.forEach(...)): the counters in
\* acc are shared by all genes
strictLoop(acc, genes, wantedTypes, limitToOne) ==
  forEach(genes,
          LAMBDA a, gene :
            forEach(kg.edges,
                    LAMBDA b, relation : strictStep(b, gene, relation, wantedTypes, limitToOne),
                    a, 1),
          acc, 1)

emptyResult == [nodes |-> <<>>, relations |-> <<>>, context |-> contextInfo]

handleSpecificGeneRequest(geneNames, wantedTypes, limitToOne) ==
  LET targetGenes == targetGenesOf(geneNames)
      genesToProcess == genesToProcessOf(geneNames, limitToOne)
      acc0 == [nodes |-> genesToProcess,
               ids |-> {genesToProcess[i].id : i \in 1..Len(genesToProcess)},
               relations |-> <<>>,
               count |-> zeroCount]
      \* no requested gene is in the graph: one gene of the disease table
      related == findGenesRelatedToContext(join(geneNames, <<" ">>))
      acc1 == IF Len(targetGenes) = 0 /\ limitToOne
                 /\ arrayIncludes(wantedTypes, T_gene) /\ Len(related) > 0
                THEN addLimitedConnections(
                       related[1], wantedTypes,
                       [acc0 EXCEPT !.nodes = Append(acc0.nodes, related[1]),
                                    !.ids = acc0.ids \cup {related[1].id}],
                       2)
                ELSE acc0
      acc2 == IF arrayIncludes(wantedTypes, T_biomarker)
                THEN forEach(kg.nodes, LAMBDA a, node : biomarkerStep(a, node, geneNames), acc1, 1)
                ELSE acc1
      acc3 == strictLoop(acc2, genesToProcess, wantedTypes, limitToOne)
  IN IF Len(targetGenes) = 0 /\ Len(acc1.nodes) = 0
       THEN emptyResult
       ELSE [nodes |-> acc3.nodes,
             relations |-> filterRelations(acc3.relations, acc3.ids),
             context |-> contextInfo]

(***************************************************************************)
(* Anchored path and queryKnowledgeGraph                                   *)
(***************************************************************************)
\* the test of the anchor loop on one node
anchorAccepts(node, queryLower, contextEntity) ==
  LET nodeLabel == nodeLabelLower(node)
  IN /\ \/ includes(queryLower, nodeLabel)
        \/ \E a \in 1..Len(nodeAliases(node)) :
             includes(queryLower, toLowerCase(nodeAliases(node)[a]))
     /\ \/ contextEntity = "disease" /\ node.type = T_disease
        \/ /\ contextEntity = "specific"
           /\ Len(nodeLabel) > 2
           /\ includes(queryLower, nodeLabel)

\* targetEntity: the first accepted node in array order, as an index into
\* kg.nodes; 0 for null
RECURSIVE findTargetEntityFrom(_, _, _)
findTargetEntityFrom(queryLower, contextEntity, i) ==
  IF i > Len(kg.nodes) THEN 0
  ELSE IF anchorAccepts(kg.nodes[i], queryLower, contextEntity) THEN i
  ELSE findTargetEntityFrom(queryLower, contextEntity, i + 1)

findTargetEntity(queryLower, contextEntity) ==
  findTargetEntityFrom(queryLower, contextEntity, 1)

maxPerType == 4

\* anchoredStep with the per-type test off by one (<= for <)
anchoredStepOffByOne(acc, targetEntity, relation, wantedTypes) ==
  LET c == connectedNodeIndex(relation, targetEntity.id)
  IN IF c # 0 /\ arrayIncludes(wantedTypes, kg.nodes[c].type)
        /\ kg.nodes[c].id \notin acc.ids
        /\ acc.count[kg.nodes[c].type] <= maxPerType
        /\ Len(acc.nodes) < 10
       THEN [nodes |-> Append(acc.nodes, kg.nodes[c]),
             ids |-> acc.ids \cup {kg.nodes[c].id},
             relations |-> Append(acc.relations, relation),
             count |-> [acc.count EXCEPT ![kg.nodes[c].type] = @ + 1]]
       ELSE acc

\* body of the edge loop over the target entity's relations
anchoredStep(acc, targetEntity, relation, wantedTypes) ==
  LET c == connectedNodeIndex(relation, targetEntity.id)
  IN IF c # 0 /\ arrayIncludes(wantedTypes, kg.nodes[c].type)
        /\ kg.nodes[c].id \notin acc.ids
        /\ acc.count[kg.nodes[c].type] < maxPerType
        /\ Len(acc.nodes) < 10
       THEN [nodes |-> Append(acc.nodes, kg.nodes[c]),
             ids |-> acc.ids \cup {kg.nodes[c].id},
             relations |-> Append(acc.relations, relation),
             count |-> [acc.count EXCEPT ![kg.nodes[c].type] = @ + 1]]
       ELSE acc

\* collectAnchored adding the target entity whatever includeContext says
collectAnchoredAlwaysContext(queryLower, queryIntent) ==
  LET t == findTargetEntity(queryLower, queryIntent.contextEntity)
      acc0 == [nodes |-> <<>>, ids |-> {}, relations |-> <<>>, count |-> zeroCount]
      acc1 == forEach(kg.edges,
                      LAMBDA a, relation :
                        anchoredStep(a, kg.nodes[t], relation, queryIntent.wantedTypes),
                      acc0, 1)
  IN IF t # 0 /\ Len(queryIntent.wantedTypes) > 0
       THEN IF kg.nodes[t].id \notin acc1.ids
              THEN [acc1 EXCEPT !.nodes = Append(acc1.nodes, kg.nodes[t]),
                                !.ids = acc1.ids \cup {kg.nodes[t].id}]
              ELSE acc1
       ELSE acc0

\* Step 3 of queryKnowledgeGraph: the target entity's neighbours of the wanted
\* types, then the target entity itself when includeContext
collectAnchored(queryLower, queryIntent) ==
  LET t == findTargetEntity(queryLower, queryIntent.contextEntity)
      acc0 == [nodes |-> <<>>, ids |-> {}, relations |-> <<>>, count |-> zeroCount]
      acc1 == forEach(kg.edges,
                      LAMBDA a, relation :
                        anchoredStep(a, kg.nodes[t], relation, queryIntent.wantedTypes),
                      acc0, 1)
  IN IF t # 0 /\ Len(queryIntent.wantedTypes) > 0
       THEN IF queryIntent.includeContext /\ kg.nodes[t].id \notin acc1.ids
              THEN [acc1 EXCEPT !.nodes = Append(acc1.nodes, kg.nodes[t]),
                                !.ids = acc1.ids \cup {kg.nodes[t].id}]
              ELSE acc1
       ELSE acc0

\* Step 4: the direct matches are taken when nothing was collected
withFallback(acc, queryLower) ==
  IF Len(acc.nodes) = 0
    THEN LET directMatches == findDirectMatches(queryLower)
         IN [nodes |-> acc.nodes \o directMatches.nodes,
             ids |-> acc.ids \cup {directMatches.nodes[i].id :
                                     i \in 1..Len(directMatches.nodes)},
             relations |-> acc.relations \o directMatches.relations]
    ELSE [nodes |-> acc.nodes, ids |-> acc.ids, relations |-> acc.relations]

\* queryKnowledgeGraph going on to the anchor search when the explicit-gene
\* path finds nothing
queryKnowledgeGraphFallsThrough(query) ==
  LET queryLower == toLowerCase(query)
      queryIntent == analyzeQueryIntent(queryLower)
      explicit == handleSpecificGeneRequest(queryIntent.specificGenes,
                                            queryIntent.wantedTypes, queryIntent.limitToOne)
      final == withFallback(collectAnchored(queryLower, queryIntent), queryLower)
  IN IF Len(queryIntent.specificGenes) > 0 /\ Len(explicit.nodes) > 0
       THEN explicit
       ELSE [nodes |-> final.nodes,
             relations |-> filterRelations(final.relations, final.ids),
             context |-> contextInfo]

queryKnowledgeGraph(query) ==
  LET queryLower == toLowerCase(query)
      queryIntent == analyzeQueryIntent(queryLower)
      final == withFallback(collectAnchored(queryLower, queryIntent), queryLower)
  IN IF Len(queryIntent.specificGenes) > 0
       THEN handleSpecificGeneRequest(queryIntent.specificGenes,
                                      queryIntent.wantedTypes, queryIntent.limitToOne)
       ELSE [nodes |-> final.nodes,
             relations |-> filterRelations(final.relations, final.ids),
             context |-> contextInfo]

(***************************************************************************)
(* Prompt formatter                                                        *)
(***************************************************************************)
\* one line of the ENTITIES block
formatNode(node) ==
  <<"-"," ">> \o toUpperCase(IF Len(node.type) > 0 THEN node.type ELSE <<"U","N","K","N","O","W","N">>)
  \o <<":"," ">> \o (IF Len(node.label) > 0 THEN node.label ELSE <<"U","n","k","n","o","w","n">>)
  \o <<" ","(","I","D",":"," ">> \o (IF Len(node.id) > 0 THEN node.id ELSE <<"U","n","k","n","o","w","n">>) \o <<")">>
  \o (IF Len(node.description) > 0 THEN <<" ","-"," ">> \o node.description ELSE <<>>)
  \o (IF node.hasAliases
        THEN <<" ","-"," ","A","l","s","o"," ","k","n","o","w","n"," ","a","s",":"," ">> \o join(node.aliases, <<","," ">>) ELSE <<>>)
  \o <<"\n">>

\* nodes.find(n => n.id === id)?.label || id
labelOrId(nodes, id) ==
  IF \E i \in 1..Len(nodes) : nodes[i].id = id
    THEN LET n == nodes[CHOOSE i \in 1..Len(nodes) :
                      nodes[i].id = id /\ \A j \in 1..(i - 1) : nodes[j].id # id]
         IN IF Len(n.label) > 0 THEN n.label ELSE id
    ELSE id

\* one line of the RELATIONSHIPS block
formatRelation(nodes, relation) ==
  <<"-"," ">> \o labelOrId(nodes, relation.source) \o <<" ">>
  \o (IF Len(relation.relation) > 0
        THEN replaceFirst(relation.relation, "_", " ") ELSE <<"r","e","l","a","t","e","d"," ","t","o">>)
  \o <<" ">> \o labelOrId(nodes, relation.target) \o <<"\n">>

RECURSIVE concatLines(_)
concatLines(lines) ==
  IF Len(lines) = 0 THEN <<>> ELSE lines[1] \o concatLines(Tail(lines))

formatKnowledgeForAI(nodes, relations, context) ==
  IF Len(nodes) = 0 /\ Len(relations) = 0
    THEN noInformation
    ELSE context \o <<"\n","\n","R","E","L","E","V","A","N","T"," ","K","N","O","W","L","E","D","G","E"," ","F","R","O","M"," ","G","R","A","P","H",":","\n","\n">>
         \o (IF Len(nodes) > 0
               THEN <<"E","N","T","I","T","I","E","S",":","\n">>
                    \o concatLines([i \in 1..Len(nodes) |-> formatNode(nodes[i])])
                    \o <<"\n">>
               ELSE <<>>)
         \o (IF Len(relations) > 0
               THEN <<"R","E","L","A","T","I","O","N","S","H","I","P","S",":","\n">>
                    \o concatLines([i \in 1..Len(relations) |->
                                      formatRelation(nodes, relations[i])])
               ELSE <<>>)

(***************************************************************************)
(* The loaded graphs.  knowledge_graph_final.json is data, not code: the   *)
(* service is checked on a family of graphs, each a fixed core of named    *)
(* entities plus numSpokes generated entities attached to one core entity, *)
(* in file order or in reverse order.                                      *)
(***************************************************************************)
MaxSpokes == 10

Node(id, label, type, description, hasAliases, aliases) ==
  [id |-> id, label |-> label, type |-> type, description |-> description,
   hasAliases |-> hasAliases, aliases |-> aliases]

Edge(source, target, relation) ==
  [source |-> source, target |-> target, relation |-> relation]

CoreNodes ==
  << Node(<<"h","1">>, <<"L","u","n","g"," ","C","a","n","c","e","r">>, T_disease, <<"l","u","n","g"," ","t","u","m","o","u","r">>, TRUE, << <<"N","S","C","L","C">> >>),
     Node(<<"h","2">>, <<"E","G","F","R">>, T_gene, <<>>, TRUE, << <<"E","R","B","B","1">>, <<"H","E","R","1">> >>),
     Node(<<"h","3">>, <<"E","G","F","R">>, T_biomarker, <<>>, FALSE, <<>>),
     Node(<<"h","4">>, <<"P","I","3","K">>, T_pathway, <<>>, FALSE, <<>>),
     Node(<<"h","5">>, <<"B","R","C","A","1">>, T_gene, <<>>, FALSE, <<>>),
     Node(<<"h","6">>, <<"E","R">>, T_biomarker, <<>>, FALSE, <<>>),
     Node(<<"h","7">>, <<"E","g","f","r">>, T_gene, <<"m","o","u","s","e"," ","o","r","t","h","o","l","o","g">>, FALSE, <<>>) >>

CoreEdges ==
  << Edge(<<"h","2">>, <<"h","1">>, <<"a","s","s","o","c","i","a","t","e","d","_","w","i","t","h">>),
     Edge(<<"h","2">>, <<"h","4">>, <<"a","c","t","i","v","a","t","e","s">>),
     Edge(<<"h","2">>, <<"h","5">>, <<"i","n","t","e","r","a","c","t","s","_","w","i","t","h">>),
     Edge(<<"h","3">>, <<"h","1">>, <<"i","s","_","b","i","o","m","a","r","k","e","r","_","f","o","r">>),
     Edge(<<"h","2">>, <<"h","4">>, <<"s","i","g","n","a","l","s","_","t","h","r","o","u","g","h">>),
     Edge(<<"h","6">>, <<"h","9","9">>, <<"i","s","_","m","a","r","k","e","r","_","o","f">>),
     Edge(<<"h","7">>, <<"h","4">>, <<"a","c","t","i","v","a","t","e","s">>) >>

\* the core entities the generated entities may be attached to
\* the shapes of the generated part: the core entity the generated entities
\* are attached to, and the types they take in turn
SpokeShapes ==
  { [hub |-> <<"h","1">>, cycle |-> <<T_gene, T_drug, T_pathway, T_biomarker>>],
    [hub |-> <<"h","2">>, cycle |-> <<T_gene, T_drug, T_pathway, T_biomarker>>],
    [hub |-> <<"h","1">>, cycle |-> <<T_drug>>],
    [hub |-> <<"h","4">>, cycle |-> <<T_pathway>>],
    [hub |-> <<"h","7">>, cycle |-> <<T_gene, T_pathway>>] }

SpokeLabel(type) ==
  IF type = T_gene THEN <<"K","R","A","S">>
  ELSE IF type = T_drug THEN <<"C","i","s","p","l","a","t","i","n">>
  ELSE IF type = T_pathway THEN <<"M","A","P","K">>
  ELSE <<"P","D","-","L","1">>

SpokeNode(i, cycle) ==
  LET type == cycle[((i - 1) % Len(cycle)) + 1]
  IN Node(<<"s">> \o Digits(i), SpokeLabel(type), type, <<>>, FALSE, <<>>)

\* odd spokes are targets of the hub, even spokes are sources
SpokeEdge(i, hub) ==
  IF i % 2 = 1 THEN Edge(hub, <<"s">> \o Digits(i), <<"i","s","_","t","a","r","g","e","t","_","o","f">>)
  ELSE Edge(<<"s">> \o Digits(i), hub, <<"a","s","s","o","c","i","a","t","e","d","_","w","i","t","h">>)

Reverse(s) == Tuple([i \in 1..Len(s) |-> s[Len(s) + 1 - i]])

MkGraph(numSpokes, hub, cycle, reversed) ==
  LET nodes == CoreNodes \o [i \in 1..numSpokes |-> SpokeNode(i, cycle)]
      edges == CoreEdges \o [i \in 1..numSpokes |-> SpokeEdge(i, hub)]
  IN IF reversed THEN [nodes |-> Reverse(nodes), edges |-> Reverse(edges)]
     ELSE [nodes |-> nodes, edges |-> edges]

Q_WhatIsEGFR   == <<"W","h","a","t"," ","i","s"," ","E","G","F","R","?">>
Q_OneGene      == <<"o","n","e"," ","g","e","n","e"," ","r","e","l","a","t","e","d"," ","t","o"," ","b","r","e","a","s","t"," ","c","a","n","c","e","r">>
Q_PI3K         == <<"T","e","l","l"," ","m","e"," ","a","b","o","u","t"," ","P","I","3","K"," ","p","a","t","h","w","a","y">>
Q_DrugsForLung == <<"D","r","u","g","s"," ","f","o","r"," ","l","u","n","g"," ","c","a","n","c","e","r">>
Q_LungCancer   == <<"L","u","n","g"," ","c","a","n","c","e","r">>
Q_Cisplatin    == <<"C","i","s","p","l","a","t","i","n">>
Q_Hello        == <<"h","e","l","l","o">>
Q_WhichGene    == <<"W","h","i","c","h"," ","g","e","n","e"," ","i","s"," ","E","G","F","R","?">>
Q_TwoGenes     == <<"E","G","F","R"," ","a","n","d"," ","B","R","C","A","1"," ","a","s","s","o","c","i","a","t","e","d"," ","d","r","u","g","s">>
Q_Biomarkers   == <<"E","G","F","R"," ","b","i","o","m","a","r","k","e","r","s">>
Q_Involved     == <<"i","n","v","o","l","v","e","d"," ","i","n"," ","l","u","n","g"," ","c","a","n","c","e","r">>
Q_KRAS         == <<"K","R","A","S"," ","i","n"," ","l","u","n","g"," ","c","a","n","c","e","r">>
Q_Markers      == <<"b","i","o","m","a","r","k","e","r","s"," ","f","o","r"," ","l","u","n","g"," ","c","a","n","c","e","r">>
Q_OneTP53      == <<"o","n","e"," ","g","e","n","e"," ","l","i","k","e"," ","T","P","5","3"," ","f","o","r"," ","b","r","e","a","s","t"," ","c","a","n","c","e","r">>
Q_Mutation     == <<"m","u","t","a","t","i","o","n"," ","i","n","v","o","l","v","e","d"," ","w","i","t","h"," ","c","i","s","p","l","a","t","i","n">>
Q_NSCLC        == <<"N","S","C","L","C">>
Q_Signaling    == <<"E","G","F","R"," ","a","n","d"," ","B","R","C","A","1"," ","s","i","g","n","a","l","i","n","g">>

Queries ==
  { Q_WhatIsEGFR, Q_OneGene, Q_PI3K, Q_DrugsForLung, Q_LungCancer, Q_Cisplatin,
    Q_Hello, Q_WhichGene, Q_TwoGenes, Q_Biomarkers, Q_Involved, Q_KRAS,
    Q_Markers, Q_OneTP53, Q_Mutation,
    Q_NSCLC, Q_Signaling }

(***************************************************************************)
(* The chat application's constants                                        *)
(***************************************************************************)
\* import.meta.env.VITE_OPENAI_API_KEY: absent, or a string
Key(present, value) == [present |-> present, value |-> value]

placeholderKey == <<"y","o","u","r","_","o","p","e","n","a","i","_","a","p","i","_","k","e","y","_","h","e","r","e">>

NoKey == Key(FALSE, <<>>)
EmptyKey == Key(TRUE, <<>>)
PlaceholderKey == Key(TRUE, placeholderKey)
MalformedKey == Key(TRUE, <<"p","k","-","t","e","s","t","-","1","2","3">>)
ValidKey == Key(TRUE, <<"s","k","-","t","e","s","t","-","1","2","3">>)

Credentials == {NoKey, EmptyKey, PlaceholderKey, MalformedKey, ValidKey}

\* apiKey && apiKey !== 'your_openai_api_key_here'
keyConfigured(key) == key.present /\ key.value # <<>> /\ key.value # placeholderKey

\* the module-level client: null unless the key is configured, and null
\* as well when the constructor throws (TRUE: the client exists)
clientFor(key) == IF keyConfigured(key) THEN {TRUE, FALSE} ELSE {FALSE}

\* an exception: the Error's message, and the status an API error carries
Err(hasStatus, status, hasMessage, message) ==
  [hasStatus |-> hasStatus, status |-> status,
   hasMessage |-> hasMessage, message |-> message]

noError == Err(FALSE, 0, FALSE, <<>>)

keyNotConfigured ==
  Err(FALSE, 0, TRUE, <<"O","p","e","n","A","I"," ","A","P","I"," ","k","e","y"," ","i","s"," ","n","o","t"," ","c","o","n","f","i","g","u","r","e","d","."," ","P","l","e","a","s","e"," ","c","h","e","c","k"," ","y","o","u","r"," ",".","e","n","v"," ","f","i","l","e"," ","a","n","d"," ","s","e","t"," ","V","I","T","E","_","O","P","E","N","A","I","_","A","P","I","_","K","E","Y",".">>)
keyBadFormat ==
  Err(FALSE, 0, TRUE, <<"I","n","v","a","l","i","d"," ","O","p","e","n","A","I"," ","A","P","I"," ","k","e","y"," ","f","o","r","m","a","t","."," ","T","h","e"," ","k","e","y"," ","s","h","o","u","l","d"," ","s","t","a","r","t"," ","w","i","t","h"," ","\"","s","k","-","\"",".">>)
clientNotInitialized ==
  Err(FALSE, 0, TRUE, <<"O","p","e","n","A","I"," ","c","l","i","e","n","t"," ","i","s"," ","n","o","t"," ","i","n","i","t","i","a","l","i","z","e","d","."," ","P","l","e","a","s","e"," ","c","h","e","c","k"," ","y","o","u","r"," ","A","P","I"," ","k","e","y"," ","c","o","n","f","i","g","u","r","a","t","i","o","n",".">>)

defaultErrorText == <<"S","o","r","r","y",","," ","I"," ","e","n","c","o","u","n","t","e","r","e","d"," ","a","n"," ","e","r","r","o","r",".">>
authFailedText == <<"A","u","t","h","e","n","t","i","c","a","t","i","o","n"," ","f","a","i","l","e","d","."," ","P","l","e","a","s","e"," ","c","h","e","c","k"," ","y","o","u","r"," ","O","p","e","n","A","I"," ","A","P","I"," ","k","e","y"," ","i","s"," ","v","a","l","i","d"," ","a","n","d"," ","h","a","s"," ","s","u","f","f","i","c","i","e","n","t"," ","c","r","e","d","i","t","s",".">>
rateLimitText == <<"R","a","t","e"," ","l","i","m","i","t"," ","e","x","c","e","e","d","e","d","."," ","P","l","e","a","s","e"," ","w","a","i","t"," ","a"," ","m","o","m","e","n","t"," ","a","n","d"," ","t","r","y"," ","a","g","a","i","n",".">>
serverErrorText == <<"O","p","e","n","A","I"," ","s","e","r","v","e","r"," ","e","r","r","o","r","."," ","P","l","e","a","s","e"," ","t","r","y"," ","a","g","a","i","n"," ","l","a","t","e","r",".">>
networkErrorText == <<"N","e","t","w","o","r","k"," ","e","r","r","o","r","."," ","P","l","e","a","s","e"," ","c","h","e","c","k"," ","y","o","u","r"," ","i","n","t","e","r","n","e","t"," ","c","o","n","n","e","c","t","i","o","n",".">>
noResponseText == <<"S","o","r","r","y",","," ","I"," ","c","o","u","l","d","n","'","t"," ","g","e","n","e","r","a","t","e"," ","a"," ","r","e","s","p","o","n","s","e",".">>

\* the catch block's choice of the text shown to the user
errorTextOf(e) ==
  IF e.hasMessage /\ includes(e.message, <<"A","P","I"," ","k","e","y">>) THEN e.message
  ELSE IF e.hasStatus /\ e.status = 401 THEN authFailedText
  ELSE IF e.hasStatus /\ e.status = 429 THEN rateLimitText
  ELSE IF e.hasStatus /\ e.status = 500 THEN serverErrorText
  ELSE IF e.hasMessage /\ includes(e.message, <<"f","e","t","c","h">>) THEN networkErrorText
  ELSE IF e.hasMessage /\ e.message # <<>> THEN <<"E","r","r","o","r",":"," ">> \o e.message
  ELSE defaultErrorText

\* apiKeyCheck without the test of the sk- prefix
apiKeyCheckNoPrefix(key, client) ==
  IF ~key.present \/ key.value = <<>> \/ key.value = placeholderKey THEN keyNotConfigured
  ELSE IF ~client THEN clientNotInitialized
  ELSE noError

\* the checks before the knowledge graph is queried: the Error thrown, or
\* noError when the turn goes on
apiKeyCheck(key, client) ==
  IF ~key.present \/ key.value = <<>> \/ key.value = placeholderKey THEN keyNotConfigured
  ELSE IF ~startsWith(key.value, <<"s","k","-">>) THEN keyBadFormat
  ELSE IF ~client THEN clientNotInitialized
  ELSE noError

\* a chat message; graphData is present on successful replies only
Message(id, text, isUser, hasGraphData, nodes, edges) ==
  [id |-> id, text |-> text, isUser |-> isUser, hasGraphData |-> hasGraphData,
   graphData |-> [nodes |-> nodes, edges |-> edges]]

\* completion.choices[0]?.message?.content || "Sorry, I couldn't generate a response."
botResponseOf(hasContent, content) ==
  IF hasContent /\ content # <<>> THEN content ELSE noResponseText

(***************************************************************************)
(* The service as a state machine: its two public methods called by any    *)
(* caller, on every graph of the family                                    *)
(***************************************************************************)
Init ==
  /\ \E numSpokes \in 0..MaxSpokes, shape \in SpokeShapes, reversed \in BOOLEAN :
       kg = MkGraph(numSpokes, shape.hub, shape.cycle, reversed)
  /\ userQuery = <<>>
  /\ result = emptyResult
  /\ knowledgeContext = <<>>
  /\ pc = "ready"
  /\ apiKey = ValidKey
  /\ openai = TRUE
  /\ messages = <<>>
  /\ isTyping = FALSE
  /\ pending = <<>>
  /\ error = noError
  /\ now = 0

\* QueryKnowledgeGraph collecting into the graph's own node array
QueryKnowledgeGraphInPlace(text) ==
  /\ pc = "ready"
  /\ userQuery' = text
  /\ result' = queryKnowledgeGraph(text)
  /\ knowledgeContext' = <<>>
  /\ pc' = "queried"
  /\ kg' = [kg EXCEPT !.nodes = kg.nodes \o result'.nodes]
  /\ UNCHANGED appVars

\* knowledgeGraphService.queryKnowledgeGraph(text)
QueryKnowledgeGraph(text) ==
  /\ pc = "ready"
  /\ userQuery' = text
  /\ result' = queryKnowledgeGraph(text)
  /\ knowledgeContext' = <<>>
  /\ pc' = "queried"
  /\ UNCHANGED kg
  /\ UNCHANGED appVars

\* knowledgeGraphService.formatKnowledgeForAI(nodes, relations, context)
FormatKnowledgeForAI ==
  /\ pc = "queried"
  /\ knowledgeContext' = formatKnowledgeForAI(result.nodes, result.relations, result.context)
  /\ pc' = "formatted"
  /\ UNCHANGED <<kg, userQuery, result>>
  /\ UNCHANGED appVars

\* the caller returns: its nodes, relations, context and knowledgeContext
\* go out of scope, and the service is ready for the next query
EndTurn ==
  /\ pc = "formatted"
  /\ userQuery' = <<>>
  /\ result' = emptyResult
  /\ knowledgeContext' = <<>>
  /\ pc' = "ready"
  /\ UNCHANGED kg
  /\ UNCHANGED appVars

Next ==
  \/ \E text \in Queries : QueryKnowledgeGraph(text)
  \/ FormatKnowledgeForAI
  \/ EndTurn

Spec == Init /\ [][Next]_vars

(***************************************************************************)
(* The chat application as a state machine: App.handleSendMessage, entered *)
(* from ChatInput and from the welcome panel's buttons.  pc is the         *)
(* position of the one JavaScript thread: "ready" is the idle event loop,  *)
(* where user events and request completions are taken; the other values   *)
(* are positions inside a running handler, which no event interrupts.      *)
(* pending holds the turns that await their chat-completion request.       *)
(***************************************************************************)
MaxTurns == 2
MaxAppSpokes == 1
MaxClock == 2

\* Date.now(): the values the millisecond clock may show when it is read;
\* now is the value of the last reading, and the clock does not go back
ClockReadings == {t \in 1..MaxClock : t >= now}

\* what the user types into the ChatInput textarea
TypedMessages == { <<" "," "," ">>, <<" ","h","e","l","l","o"," ">> }

\* the texts of the three buttons of the welcome panel
WelcomeTexts == { Q_WhatIsEGFR, Q_PI3K, Q_DrugsForLung }

\* completion.choices[0]?.message?.content: absent, or a string
Contents == { [hasContent |-> FALSE, content |-> <<>>],
              [hasContent |-> TRUE, content |-> <<"*","*","O","v","e","r","v","i","e","w",":","*","*"," ","s","e","e"," ","t","h","e"," ","g","r","a","p","h",".">>] }

\* what a failed request throws
ApiErrors ==
  { Err(TRUE, 401, TRUE, <<"4","0","1"," ","I","n","c","o","r","r","e","c","t"," ","A","P","I"," ","k","e","y"," ","p","r","o","v","i","d","e","d",":"," ","s","k","-","t","e","s","t","-","1","2","3",".">>),
    Err(TRUE, 401, TRUE, <<"4","0","1"," ","U","n","a","u","t","h","o","r","i","z","e","d">>),
    Err(TRUE, 429, TRUE, <<"4","2","9"," ","T","o","o"," ","m","a","n","y"," ","r","e","q","u","e","s","t","s",","," ","f","e","t","c","h"," ","a","g","a","i","n"," ","l","a","t","e","r">>),
    Err(TRUE, 500, TRUE, <<"5","0","0"," ","I","n","t","e","r","n","a","l"," ","s","e","r","v","e","r"," ","e","r","r","o","r">>),
    Err(TRUE, 503, TRUE, <<"5","0","3"," ","S","e","r","v","i","c","e"," ","u","n","a","v","a","i","l","a","b","l","e">>),
    Err(FALSE, 0, TRUE, <<"F","a","i","l","e","d"," ","t","o"," ","f","e","t","c","h">>),
    Err(FALSE, 0, FALSE, <<>>) }

\* a ChatInput that is never disabled
disabledNever == FALSE

\* <ChatInput disabled={isTyping} />
disabled == isTyping

\* {messages.length === 0 && ( ... the welcome panel ... )}
welcomeShown == Len(messages) = 0

\* the turns started so far
turnsStarted == Len(SelectSeq(messages, LAMBDA m : m.isUser))

AppInit ==
  /\ kg = MkGraph(MaxAppSpokes, <<"h","2">>, <<T_gene, T_drug, T_pathway, T_biomarker>>, FALSE)
  /\ userQuery = <<>>
  /\ result = emptyResult
  /\ knowledgeContext = <<>>
  /\ pc = "ready"
  /\ apiKey \in Credentials
  /\ openai \in clientFor(apiKey)
  /\ messages = <<>>
  /\ isTyping = FALSE
  /\ pending = <<>>
  /\ error = noError
  /\ now = 0

\* HandleSendMessage that sets the list instead of appending to it
HandleSendMessageResets(text) ==
  /\ pc = "ready"
  /\ turnsStarted < MaxTurns
  /\ \E t \in ClockReadings :
       /\ now' = t
       /\ messages' = <<Message(Digits(t), text, TRUE, FALSE, <<>>, <<>>)>>
  /\ isTyping' = TRUE
  /\ userQuery' = text
  /\ pc' = "try"
  /\ UNCHANGED <<kg, result, knowledgeContext, apiKey, openai, pending, error>>

\* handleSendMessage(text) up to the try block: the user message is
\* appended and isTyping is set
HandleSendMessage(text) ==
  /\ pc = "ready"
  /\ turnsStarted < MaxTurns
  /\ \E t \in ClockReadings :
       /\ now' = t
       /\ messages' = Append(messages, Message(Digits(t), text, TRUE, FALSE, <<>>, <<>>))
  /\ isTyping' = TRUE
  /\ userQuery' = text
  /\ pc' = "try"
  /\ UNCHANGED <<kg, result, knowledgeContext, apiKey, openai, pending, error>>

\* ChatInput.handleSend, from the send button or the Enter key
ChatInputSend(message) ==
  /\ trim(message) # <<>>
  /\ ~disabled
  /\ HandleSendMessage(trim(message))

\* onClick of a button of the welcome panel
WelcomeButton(text) ==
  /\ welcomeShown
  /\ HandleSendMessage(text)

\* the checks on the API key and the client; a failed check throws
CheckApiKey ==
  /\ pc = "try"
  /\ LET thrown == apiKeyCheck(apiKey, openai)
     IN IF thrown # noError
          THEN error' = thrown /\ pc' = "catch"
          ELSE error' = error /\ pc' = "checked"
  /\ UNCHANGED <<kg, userQuery, result, knowledgeContext, apiKey, openai,
                 messages, isTyping, pending, now>>

\* const { nodes, relations, context } = knowledgeGraphService.queryKnowledgeGraph(text)
TurnQueryKnowledgeGraph ==
  /\ pc = "checked"
  /\ result' = queryKnowledgeGraph(userQuery)
  /\ pc' = "queried"
  /\ UNCHANGED <<kg, userQuery, knowledgeContext>>
  /\ UNCHANGED appVars

\* await openai.chat.completions.create(...): the request is issued and the
\* handler is suspended with its nodes and relations
CreateCompletion ==
  /\ pc = "formatted"
  /\ isTyping
  /\ pending' = Append(pending, [text |-> userQuery, nodes |-> result.nodes,
                                 relations |-> result.relations,
                                 prompt |-> knowledgeContext])
  /\ userQuery' = <<>>
  /\ result' = emptyResult
  /\ knowledgeContext' = <<>>
  /\ pc' = "ready"
  /\ UNCHANGED <<kg, apiKey, openai, messages, isTyping, error, now>>

\* pending without its i-th element
withoutTurn(i) == SubSeq(pending, 1, i - 1) \o SubSeq(pending, i + 1, Len(pending))

\* Resolve with the graphData of the handler's current locals, not of the turn
ResolveWithCurrentResult(i, completion) ==
  /\ pc = "ready"
  /\ i \in 1..Len(pending)
  /\ \E t \in ClockReadings :
       /\ now' = t
       /\ messages' = Append(messages,
                             Message(Digits(t + 1),
                                     botResponseOf(completion.hasContent, completion.content),
                                     FALSE, TRUE, result.nodes, result.relations))
  /\ pending' = withoutTurn(i)
  /\ pc' = "finally"
  /\ UNCHANGED <<kg, userQuery, result, knowledgeContext, apiKey, openai, isTyping, error>>

\* the request of a pending turn resolves: the reply carries the turn's
\* nodes and relations as graphData
Resolve(i, completion) ==
  /\ pc = "ready"
  /\ i \in 1..Len(pending)
  /\ \E t \in ClockReadings :
       /\ now' = t
       /\ messages' = Append(messages,
                             Message(Digits(t + 1),
                                     botResponseOf(completion.hasContent, completion.content),
                                     FALSE, TRUE, pending[i].nodes, pending[i].relations))
  /\ pending' = withoutTurn(i)
  /\ pc' = "finally"
  /\ UNCHANGED <<kg, userQuery, result, knowledgeContext, apiKey, openai, isTyping, error>>

\* the request of a pending turn fails: the handler resumes in its catch block
Reject(i, thrown) ==
  /\ pc = "ready"
  /\ i \in 1..Len(pending)
  /\ error' = thrown
  /\ pending' = withoutTurn(i)
  /\ pc' = "catch"
  /\ UNCHANGED <<kg, userQuery, result, knowledgeContext, apiKey, openai, messages, isTyping, now>>

\* Catch of a handler whose setIsTyping(false) is not in a finally block
CatchSkipsFinally ==
  /\ pc = "catch"
  /\ \E t \in ClockReadings :
       /\ now' = t
       /\ messages' = Append(messages,
                             Message(Digits(t + 1), errorTextOf(error), FALSE, FALSE, <<>>, <<>>))
  /\ userQuery' = <<>>
  /\ error' = noError
  /\ pc' = "ready"
  /\ UNCHANGED <<kg, result, knowledgeContext, apiKey, openai, isTyping, pending>>

\* Catch of a handler that logs the error and appends no message
CatchSilent ==
  /\ pc = "catch"
  /\ pc' = "finally"
  /\ UNCHANGED <<kg, userQuery, result, knowledgeContext, apiKey, openai,
                 messages, isTyping, pending, error, now>>

\* catch (error): the error message is appended, without graphData
Catch ==
  /\ pc = "catch"
  /\ \E t \in ClockReadings :
       /\ now' = t
       /\ messages' = Append(messages,
                             Message(Digits(t + 1), errorTextOf(error), FALSE, FALSE, <<>>, <<>>))
  /\ pc' = "finally"
  /\ UNCHANGED <<kg, userQuery, result, knowledgeContext, apiKey, openai, isTyping, pending, error>>

\* finally { setIsTyping(false) }, and the handler returns
Finally ==
  /\ pc = "finally"
  /\ isTyping' = FALSE
  /\ userQuery' = <<>>
  /\ error' = noError
  /\ pc' = "ready"
  /\ UNCHANGED <<kg, result, knowledgeContext, apiKey, openai, messages, pending, now>>

AppNext ==
  \/ \E message \in TypedMessages : ChatInputSend(message)
  \/ \E text \in WelcomeTexts : WelcomeButton(text)
  \/ CheckApiKey
  \/ TurnQueryKnowledgeGraph
  \/ FormatKnowledgeForAI
  \/ CreateCompletion
  \/ \E i \in 1..Len(pending), completion \in Contents : Resolve(i, completion)
  \/ \E i \in 1..Len(pending), thrown \in ApiErrors : Reject(i, thrown)
  \/ Catch
  \/ Finally

AppSpec == AppInit /\ [][AppNext]_vars

\* the end of a handler that resumed after its request, or whose checks
\* threw: its catch block and its finally block
HandlerEnd == Catch \/ Finally

\* JavaScript runs a handler that has resumed to its end; nothing says that
\* a request ever completes
AppFairSpec == AppSpec /\ WF_vars(HandlerEnd)

(***************************************************************************)
(* Vocabulary of the properties                                            *)
(***************************************************************************)
\* a query has been answered and its result is held by the caller
Answered == pc \in {"queried", "formatted"}

queryLowerOf == toLowerCase(userQuery)

\* the classification of the answered query
intentOf == analyzeQueryIntent(queryLowerOf)

\* the anchor of the answered query, as an index into kg.nodes (0: none)
anchorOf == findTargetEntity(queryLowerOf, intentOf.contextEntity)

\* the branch of queryKnowledgeGraph that produced the result
queryPath ==
  IF Len(intentOf.specificGenes) > 0 THEN "explicit"
  ELSE IF Len(collectAnchored(queryLowerOf, intentOf).nodes) > 0 THEN "anchored"
  ELSE "fallback"

resultIds == {result.nodes[i].id : i \in 1..Len(result.nodes)}

countOfType(nodes, type) == Cardinality({i \in 1..Len(nodes) : nodes[i].type = type})

\* node is a gene-typed node whose label is name up to letter case
isGeneNamed(node, name) == node.type = T_gene /\ toUpperCase(node.label) = name

(***************************************************************************)
(* C1.  Every edge returned by queryKnowledgeGraph, on the explicit-gene   *)
(* path, the anchored path and the direct-match fallback alike, has its    *)
(* source id and its target id among the ids of the returned nodes.        *)
(***************************************************************************)
C1_ReferentialClosure ==
  \A i \in 1..Len(result.relations) :
    /\ result.relations[i].source \in resultIds
    /\ result.relations[i].target \in resultIds

\* the fallback pushed an edge whose source was never included, the final
\* filter dropped it and kept others
C1_Witness ==
  /\ pc = "queried"
  /\ queryPath = "fallback"
  /\ Len(result.relations) > 0
  /\ Len(findDirectMatches(queryLowerOf).relations) > Len(result.relations)

(***************************************************************************)
(* C2.  When the classifier sets limitToOne and an explicit gene name      *)
(* resolves to a gene-typed node, the result holds exactly one node of     *)
(* type gene, the anchor.                                                  *)
(***************************************************************************)
C2_ExactlyOneGene ==
  ( /\ Answered
    /\ intentOf.limitToOne
    /\ \E k \in 1..Len(kg.nodes), g \in 1..Len(intentOf.specificGenes) :
         isGeneNamed(kg.nodes[k], intentOf.specificGenes[g]) )
  => /\ countOfType(result.nodes, T_gene) = 1
     /\ result.nodes[1].type = T_gene

(***************************************************************************)
(* C3.  "one gene related to breast cancer" on a graph with a gene node    *)
(* labelled BRCA1 yields exactly one gene node, and its label is BRCA1.    *)
(***************************************************************************)
C3_OneGeneForBreastCancer ==
  ( /\ Answered
    /\ userQuery = Q_OneGene
    /\ \E k \in 1..Len(kg.nodes) :
         kg.nodes[k].type = T_gene /\ kg.nodes[k].label = <<"B","R","C","A","1">> )
  => /\ countOfType(result.nodes, T_gene) = 1
     /\ \A i \in 1..Len(result.nodes) :
          result.nodes[i].type = T_gene => result.nodes[i].label = <<"B","R","C","A","1">>

(***************************************************************************)
(* C4.  On the explicit-gene path the nodes the edge scan adds never       *)
(* exceed the cap for any entity type: 2 when limitToOne is true, 3        *)
(* otherwise.  The anchor genes and the biomarkers added by name are not   *)
(* under the cap: they come in addition.                                   *)
(***************************************************************************)
\* the genes handleSpecificGeneRequest starts from
explicitAnchors(geneNames, limitToOne) ==
  LET hits == SelectSeq(kg.nodes,
                        LAMBDA node : \E g \in 1..Len(geneNames) :
                                        isGeneNamed(node, geneNames[g]))
  IN IF limitToOne /\ Len(hits) > 1 THEN <<hits[1]>> ELSE hits

isAnchorOrByName(node, anchorIds, geneNames) ==
  \/ node.id \in anchorIds
  \/ /\ node.type = T_biomarker
     /\ \E g \in 1..Len(geneNames) : toUpperCase(node.label) = geneNames[g]

explicitCap(limitToOne) == IF limitToOne THEN 2 ELSE 3

\* the number of returned nodes of a type that the edge scan added
connectedOfType(type, anchorIds, geneNames) ==
  Cardinality({i \in 1..Len(result.nodes) :
                 /\ result.nodes[i].type = type
                 /\ ~isAnchorOrByName(result.nodes[i], anchorIds, geneNames)})

C4_ConnectedPerTypeCap ==
  Answered =>
    LET intent == intentOf
        anchors == explicitAnchors(intent.specificGenes, intent.limitToOne)
        anchorIds == {anchors[a].id : a \in 1..Len(anchors)}
    IN (Len(intent.specificGenes) > 0 /\ Len(anchors) > 0)
       => \A type \in NodeTypes :
            connectedOfType(type, anchorIds, intent.specificGenes)
              <= explicitCap(intent.limitToOne)

\* the claim as first stated: anchors and by-name biomarkers counted too
C4_PerTypeCapCountingAnchors ==
  Answered =>
    LET intent == intentOf
    IN Len(intent.specificGenes) > 0
       => \A type \in NodeTypes :
            countOfType(result.nodes, type) <= explicitCap(intent.limitToOne)

\* the edge scan filled the cap of a type, and the anchors come on top
C4_Witness ==
  /\ Answered
  /\ LET intent == intentOf
         anchors == explicitAnchors(intent.specificGenes, intent.limitToOne)
         anchorIds == {anchors[a].id : a \in 1..Len(anchors)}
     IN /\ Len(intent.specificGenes) > 0
        /\ \E type \in NodeTypes :
             /\ connectedOfType(type, anchorIds, intent.specificGenes)
                  = explicitCap(intent.limitToOne)
             /\ countOfType(result.nodes, type) > explicitCap(intent.limitToOne)

(***************************************************************************)
(* C5.  On the anchored path the nodes other than the anchor never exceed  *)
(* 4 for any entity type, and with a disease anchor no type exceeds 4 at   *)
(* all; an anchor of a wanted type is added on top of its type's 4.        *)
(***************************************************************************)
C5_AnchoredPerTypeCap ==
  (Answered /\ queryPath = "anchored")
  => /\ \A type \in NodeTypes :
          Cardinality({i \in 1..Len(result.nodes) :
                         /\ result.nodes[i].type = type
                         /\ result.nodes[i].id # kg.nodes[anchorOf].id}) <= 4
     /\ intentOf.contextEntity = "disease"
          => \A type \in NodeTypes : countOfType(result.nodes, type) <= 4

\* the claim as first stated: the anchor counted with its type
C5_PerTypeCapCountingAnchor ==
  (Answered /\ queryPath = "anchored")
  => \A type \in NodeTypes : countOfType(result.nodes, type) <= 4

\* four neighbours of the anchor's own type, and the anchor added after them
C5_Witness ==
  /\ Answered
  /\ queryPath = "anchored"
  /\ result.nodes[Len(result.nodes)].id = kg.nodes[anchorOf].id
  /\ countOfType(result.nodes, kg.nodes[anchorOf].type) = 5

(***************************************************************************)
(* C6.  On the anchored path the result never has more than 10 nodes,      *)
(* whether or not the anchor is included.                                  *)
(***************************************************************************)
C6_AnchoredTotalCap ==
  (Answered /\ queryPath = "anchored") => Len(result.nodes) <= 10

(***************************************************************************)
(* C7.  On the direct-match fallback the result never has more than 8      *)
(* nodes, also when more than 8 node labels occur in the query.            *)
(***************************************************************************)
C7_FallbackTotalCap ==
  (Answered /\ queryPath = "fallback") => Len(result.nodes) <= 8

(***************************************************************************)
(* C8.  A query that names no explicit gene, matches no anchor and has no  *)
(* node label longer than 2 as a substring gets the empty node list and    *)
(* the empty edge list, and formatKnowledgeForAI turns that result into    *)
(* exactly the fixed sentence, with no header.                             *)
(***************************************************************************)
nothingMatches ==
  /\ Len(intentOf.specificGenes) = 0
  /\ anchorOf = 0
  /\ \A k \in 1..Len(kg.nodes) :
       ~(Len(kg.nodes[k].label) > 2
         /\ includes(queryLowerOf, toLowerCase(kg.nodes[k].label)))

C8_EmptyResult ==
  (Answered /\ nothingMatches)
  => /\ result.nodes = <<>>
     /\ result.relations = <<>>
     /\ pc = "formatted"
          => knowledgeContext = <<"N","o"," ","r","e","l","e","v","a","n","t"," ","i","n","f","o","r","m","a","t","i","o","n"," ","f","o","u","n","d"," ","i","n"," ","t","h","e"," ","k","n","o","w","l","e","d","g","e"," ","g","r","a","p","h",".">>

\* a label of two characters occurs in the query and is not matched
C8_Witness ==
  /\ pc = "formatted"
  /\ nothingMatches
  /\ \E k \in 1..Len(kg.nodes) : includes(queryLowerOf, toLowerCase(kg.nodes[k].label))
  /\ knowledgeContext = noInformation

(***************************************************************************)
(* C9.  When explicit gene names are found and no type keyword occurs in   *)
(* the query, wantedTypes is {gene, pathway, drug, biomarker}.             *)
(***************************************************************************)
noTypeKeyword ==
  ~includesAny(queryLowerOf,
               << <<"g","e","n","e">>, <<"d","r","u","g">>, <<"t","r","e","a","t","m","e","n","t">>, <<"t","h","e","r","a","p","y">>, <<"p","a","t","h","w","a","y">>,
                  <<"s","i","g","n","a","l","i","n","g">>, <<"b","i","o","m","a","r","k","e","r">>, <<"m","a","r","k","e","r">> >>)

C9_DefaultWantedTypes ==
  (Answered /\ Len(intentOf.specificGenes) > 0 /\ noTypeKeyword)
  => {intentOf.wantedTypes[i] : i \in 1..Len(intentOf.wantedTypes)}
       = {T_gene, T_pathway, T_drug, T_biomarker}

(***************************************************************************)
(* C10.  "What is EGFR?" on a graph with a gene node labelled EGFR takes   *)
(* the explicit-gene path and returns a non-empty result whose first node  *)
(* is the first gene-typed node of the graph, in node order, whose label   *)
(* is EGFR up to letter case.                                              *)
(***************************************************************************)
hasGeneLabelled(label) ==
  \E k \in 1..Len(kg.nodes) : kg.nodes[k].type = T_gene /\ kg.nodes[k].label = label

C10_AnchorFirst ==
  (Answered /\ userQuery = Q_WhatIsEGFR /\ hasGeneLabelled(<<"E","G","F","R">>))
  => /\ queryPath = "explicit"
     /\ Len(result.nodes) > 0
     /\ \E k \in 1..Len(kg.nodes) :
          /\ result.nodes[1] = kg.nodes[k]
          /\ isGeneNamed(kg.nodes[k], <<"E","G","F","R">>)
          /\ \A j \in 1..(k - 1) : ~isGeneNamed(kg.nodes[j], <<"E","G","F","R">>)

\* the claim as first stated: the first node is labelled EGFR exactly
C10_AnchorLabelledEGFR ==
  (Answered /\ userQuery = Q_WhatIsEGFR /\ hasGeneLabelled(<<"E","G","F","R">>))
  => /\ queryPath = "explicit"
     /\ Len(result.nodes) > 0
     /\ result.nodes[1].label = <<"E","G","F","R">>
     /\ result.nodes[1].type = T_gene

C10_Witness ==
  /\ Answered
  /\ userQuery = Q_WhatIsEGFR
  /\ Len(result.nodes) > 1
  /\ result.nodes[1].label = <<"E","G","F","R">>
  /\ result.nodes[1].type = T_gene

(***************************************************************************)
(* Vocabulary of the chat application's properties                         *)
(***************************************************************************)
\* the credential is absent, empty, the placeholder, or not prefixed sk-
badCredential ==
  \/ ~apiKey.present
  \/ apiKey.value = <<>>
  \/ apiKey.value = placeholderKey
  \/ ~startsWith(apiKey.value, <<"s","k","-">>)

\* the message the key checks give for the credential
configurationErrorText ==
  IF ~apiKey.present \/ apiKey.value = <<>> \/ apiKey.value = placeholderKey
    THEN keyNotConfigured.message
    ELSE keyBadFormat.message

\* a handler is running (the thread is not in the idle event loop)
running == pc # "ready"

\* the turns that have started and not yet returned
activeTurns == Len(pending) + (IF running THEN 1 ELSE 0)

(***************************************************************************)
(* C11.  A turn started with a credential that is absent, empty, the       *)
(* placeholder or not prefixed sk- never queries the knowledge graph and   *)
(* never issues the chat-completion request, and its reply is the          *)
(* configuration-error message of the key checks, without graphData.       *)
(***************************************************************************)
C11_NoRequestWithoutKey ==
  badCredential
  => /\ pending = <<>>
     /\ pc \notin {"checked", "queried", "formatted"}
     /\ result = emptyResult /\ knowledgeContext = <<>>
     /\ \A i \in 1..Len(messages) :
          ~messages[i].isUser
          => /\ messages[i].text = configurationErrorText
             /\ ~messages[i].hasGraphData
     /\ pc = "ready" => /\ Len(messages) % 2 = 0
                        /\ \A i \in 1..Len(messages) : messages[i].isUser <=> (i % 2 = 1)

\* a turn with a key that is not prefixed sk- has ended with its reply
C11_Witness ==
  /\ apiKey = MalformedKey
  /\ pc = "ready"
  /\ Len(messages) = 2
  /\ messages[1].isUser
  /\ messages[2].text = keyBadFormat.message

(***************************************************************************)
(* C12.  At most one turn is between its start and the end of its          *)
(* request at any time: while a request is in flight, or a handler runs,   *)
(* no further handleSendMessage starts, so there is never more than one    *)
(* request in flight.                                                      *)
(***************************************************************************)
C12_OneRequestInFlight == activeTurns <= 1

\* the second turn's request is in flight, after the first turn ended
C12_Witness ==
  /\ Len(pending) = 1
  /\ pc = "ready"
  /\ turnsStarted = 2
  /\ Len(messages) = 3

(***************************************************************************)
(* C13.  Every turn whose request resolved or failed, or whose checks      *)
(* threw, gets isTyping back to false when its handler returns; in the     *)
(* idle event loop isTyping is true exactly while a request is pending.    *)
(***************************************************************************)
C13_TypingCleared ==
  /\ [](pc = "ready" => (isTyping <=> pending # <<>>))
  /\ (pc \in {"catch", "finally"}) ~> (pc = "ready" /\ ~isTyping)

\* a failed request's turn has ended, and typing is off again
C13_Witness ==
  /\ pc = "ready"
  /\ ~isTyping
  /\ Len(messages) = 2
  /\ apiKey = ValidKey /\ openai
  /\ messages[2].text = networkErrorText

\* the last message of the list
lastMessage == messages[Len(messages)]

\* the catch block has just appended its message for the error it caught
errorReplied == pc = "finally" /\ error # noError

(***************************************************************************)
(* C14.  A failed request whose error carries a status of the 5xx range    *)
(* is answered with 'OpenAI server error. Please try again later.'.        *)
(***************************************************************************)
C14_ServerErrorText ==
  (errorReplied /\ error.hasStatus /\ error.status \in 500..599)
  => lastMessage.text = serverErrorText

(***************************************************************************)
(* C15.  A failed request with status 401 is answered with the fixed       *)
(* authentication-failure message, and one with status 429 with the fixed  *)
(* rate-limit message, whatever the error's own message says.              *)
(***************************************************************************)
C15_AuthAndRateLimitText ==
  /\ (errorReplied /\ error.hasStatus /\ error.status = 401)
     => lastMessage.text = authFailedText
  /\ (errorReplied /\ error.hasStatus /\ error.status = 429)
     => lastMessage.text = rateLimitText

(***************************************************************************)
(* C16.  Each turn appends exactly one reply after its user message: a     *)
(* resolved request appends a non-user message whose graphData is the      *)
(* nodes and relations queryKnowledgeGraph gives for the turn's text, a    *)
(* failure appends a non-user message without graphData.                   *)
(***************************************************************************)
\* the reply of a resolved request: graphData of the query of the text before it
isSuccessReply(msgs) ==
  LET reply == msgs[Len(msgs)]
      asked == msgs[Len(msgs) - 1]
      found == queryKnowledgeGraph(asked.text)
  IN /\ ~reply.isUser /\ asked.isUser
     /\ reply.hasGraphData
     /\ reply.graphData = [nodes |-> found.nodes, edges |-> found.relations]

isFailureReply(msgs) ==
  LET reply == msgs[Len(msgs)]
      asked == msgs[Len(msgs) - 1]
  IN /\ ~reply.isUser /\ asked.isUser
     /\ ~reply.hasGraphData

\* user message, reply, user message, reply, ...; a last user message
\* without reply only while its turn is active
oneReplyPerTurn ==
  /\ \A i \in 1..Len(messages) : messages[i].isUser <=> (i % 2 = 1)
  /\ (pc = "ready" /\ pending = <<>>) => Len(messages) % 2 = 0

C16_OneReplyPerTurn ==
  /\ []oneReplyPerTurn
  /\ [][ /\ (pc = "ready" /\ pc' = "finally")
            => (Len(messages') = Len(messages) + 1 /\ isSuccessReply(messages'))
         /\ (pc = "catch" /\ pc' = "finally")
            => (Len(messages') = Len(messages) + 1 /\ isFailureReply(messages'))
         /\ (pc = "finally")
            => messages' = messages ]_vars

\* two turns have ended, the first with graphData of a non-empty subgraph,
\* the second with an error message
C16_Witness ==
  /\ pc = "ready" /\ pending = <<>>
  /\ Len(messages) = 4
  /\ messages[2].hasGraphData /\ Len(messages[2].graphData.nodes) > 1
  /\ ~messages[4].hasGraphData

(***************************************************************************)
(* C17.  The message list is append-only: every change of messages adds    *)
(* one element at the end and leaves the elements before it as they were.  *)
(***************************************************************************)
C17_AppendOnly ==
  [][ messages' # messages
      => /\ Len(messages') = Len(messages) + 1
         /\ SubSeq(messages', 1, Len(messages)) = messages ]_vars

\* a list of two turns, one ended by a reply and one by an error message
C17_Witness ==
  /\ Len(messages) = 4
  /\ messages[2].hasGraphData
  /\ messages[4].text = rateLimitText

(***************************************************************************)
(* C18.  No call of queryKnowledgeGraph or formatKnowledgeForAI changes    *)
(* the loaded graph: its node list and its edge list are after every call  *)
(* what they were before it.                                               *)
(***************************************************************************)
C18_GraphUnchanged == [][kg' = kg]_vars

\* a query has been answered and formatted, and its result holds nodes
\* of the graph
C18_Witness ==
  /\ pc = "formatted"
  /\ Len(result.nodes) > 0
  /\ \A i \in 1..Len(result.nodes) :
       \E k \in 1..Len(kg.nodes) : kg.nodes[k] = result.nodes[i]
  /\ knowledgeContext # noInformation

(***************************************************************************)
(* C19.  A gene symbol of the allow-list is taken as an explicit gene only *)
(* when it occurs in the query as a whole token; a symbol that occurs      *)
(* merely inside a longer word gives no explicit gene and does not route   *)
(* the query to the explicit-gene path.                                    *)
(***************************************************************************)
isAlnum(c) ==
  \/ \E k \in 1..Len(UpperChars) : UpperChars[k] = c
  \/ \E k \in 1..Len(LowerChars) : LowerChars[k] = c
  \/ \E k \in 1..Len(DigitChars) : DigitChars[k] = c

\* t occurs in s with no letter or digit right before or right after it
occursAsToken(s, t) ==
  \E i \in 0..(Len(s) - Len(t)) :
    /\ \A j \in 1..Len(t) : s[i + j] = t[j]
    /\ (i = 0 \/ ~isAlnum(s[i]))
    /\ (i + Len(t) = Len(s) \/ ~isAlnum(s[i + Len(t) + 1]))

C19_WholeTokenGenes ==
  Answered =>
    LET intent == intentOf
        upper == toUpperCase(userQuery)
    IN \A g \in 1..Len(intent.specificGenes) :
         occursAsToken(upper, intent.specificGenes[g])

(***************************************************************************)
(* C20.  When no explicit gene name resolves to a gene node, limitToOne    *)
(* is true and gene is wanted, the result holds the first gene present in  *)
(* the graph of the table entry of the cancer type named in the query.     *)
(***************************************************************************)
C20_TableGeneForQuery ==
  Answered =>
    LET intent == intentOf
        anchors == explicitAnchors(intent.specificGenes, intent.limitToOne)
        fromTable == findGenesRelatedToContext(queryLowerOf)
    IN ( /\ Len(intent.specificGenes) > 0
         /\ Len(anchors) = 0
         /\ intent.limitToOne
         /\ arrayIncludes(intent.wantedTypes, T_gene)
         /\ Len(fromTable) > 0 )
       => \E i \in 1..Len(result.nodes) : result.nodes[i] = fromTable[1]

(***************************************************************************)
(* Vocabulary of the properties of the anchored path and of the fallback   *)
(***************************************************************************)
\* the edge scan from the anchor kg.nodes[t] meets no neighbour of a wanted type
noQualifyingNeighbour(t, wantedTypes) ==
  \A e \in 1..Len(kg.edges) :
    LET c == connectedNodeIndex(kg.edges[e], kg.nodes[t].id)
    IN c = 0 \/ ~arrayIncludes(wantedTypes, kg.nodes[c].type)

\* what queryKnowledgeGraph returns when it takes the direct-match scan
scanResult(queryLower) ==
  LET d == findDirectMatches(queryLower)
  IN [nodes |-> d.nodes,
      relations |-> filterRelations(d.relations, d.ids),
      context |-> contextInfo]

(***************************************************************************)
(* C21.  On the anchored path, when an anchor is found and none of its     *)
(* neighbours is of a wanted type, the direct-match scan is taken and its  *)
(* result returned exactly when includeContext is false; when              *)
(* includeContext is true the result is the anchor alone, without edges.   *)
(***************************************************************************)
C21_FallbackUnlessAnchorIncluded ==
  Answered =>
    LET intent == intentOf
        t == findTargetEntity(queryLowerOf, intent.contextEntity)
    IN ( /\ Len(intent.specificGenes) = 0
         /\ t # 0
         /\ noQualifyingNeighbour(t, intent.wantedTypes) )
       => IF intent.includeContext
            THEN result.nodes = <<kg.nodes[t]>> /\ result.relations = <<>>
            ELSE result = scanResult(queryLowerOf)

\* the claim as first stated: the scan's result for every value of includeContext
C21_FallbackWhenNoNeighbour ==
  Answered =>
    LET intent == intentOf
        t == findTargetEntity(queryLowerOf, intent.contextEntity)
    IN ( /\ Len(intent.specificGenes) = 0
         /\ t # 0
         /\ noQualifyingNeighbour(t, intent.wantedTypes) )
       => result = scanResult(queryLowerOf)

\* includeContext is false, the anchor has no neighbour of a wanted type, and
\* the scan returned the anchor with a neighbour of an unwanted type
C21_Witness ==
  /\ Answered
  /\ LET intent == intentOf
         t == findTargetEntity(queryLowerOf, intent.contextEntity)
     IN /\ Len(intent.specificGenes) = 0
        /\ t # 0
        /\ noQualifyingNeighbour(t, intent.wantedTypes)
        /\ ~intent.includeContext
        /\ Len(result.nodes) > 1
        /\ \E i \in 1..Len(result.nodes) :
             ~arrayIncludes(intent.wantedTypes, result.nodes[i].type)
        /\ Len(result.relations) > 0

(***************************************************************************)
(* C22.  With contextEntity specific and no explicit gene, the anchor is   *)
(* the first node in array order whose label is longer than 2 characters   *)
(* and whose label, or one of whose aliases, occurs in the lower-cased     *)
(* query: a node matched through an alias only is the anchor too.          *)
(***************************************************************************)
\* the label of the node or one of its aliases occurs in the query
labelOrAliasOccurs(node, queryLower) ==
  \/ includes(queryLower, nodeLabelLower(node))
  \/ \E a \in 1..Len(nodeAliases(node)) :
       includes(queryLower, toLowerCase(nodeAliases(node)[a]))

C22_AliasAnchor ==
  Answered =>
    LET intent == intentOf
        t == findTargetEntity(queryLowerOf, intent.contextEntity)
        accepted(k) == /\ labelOrAliasOccurs(kg.nodes[k], queryLowerOf)
                       /\ Len(nodeLabelLower(kg.nodes[k])) > 2
    IN (Len(intent.specificGenes) = 0 /\ intent.contextEntity = "specific")
       => /\ t = 0 => \A k \in 1..Len(kg.nodes) : ~accepted(k)
          /\ t # 0 => (accepted(t) /\ \A j \in 1..(t - 1) : ~accepted(j))

(***************************************************************************)
(* C23.  In the direct-match fallback the pass over the edges adds every   *)
(* neighbour of an included node while fewer than 8 nodes are included,    *)
(* whether the included node is the source or the target of the edge: a    *)
(* result of fewer than 8 nodes holds both ends of every edge that has a   *)
(* directly matched node at one end and a node of the graph at the other.  *)
(***************************************************************************)
\* the ids of the nodes the label scan of findDirectMatches includes
directMatchIds(queryLower) ==
  LET matched == directLabelMatches(queryLower)
  IN {matched[i].id : i \in 1..Len(matched)}

C23_NeighboursAtBothEnds ==
  (Answered /\ queryPath = "fallback" /\ Len(result.nodes) < 8)
  => LET matchedIds == directMatchIds(queryLowerOf)
     IN \A e \in 1..Len(kg.edges) :
          /\ (kg.edges[e].source \in matchedIds /\ findNodeIndex(kg.edges[e].target) # 0)
             => kg.edges[e].target \in resultIds
          /\ (kg.edges[e].target \in matchedIds /\ findNodeIndex(kg.edges[e].source) # 0)
             => kg.edges[e].source \in resultIds

(***************************************************************************)
(* C24.  Every returned node is a matched node (the anchor, an explicit    *)
(* gene, a biomarker added by name, a direct label match) or one end of a  *)
(* graph edge whose other end is a matched node: no returned node is two   *)
(* or more hops away from every matched node, on any path.                 *)
(***************************************************************************)
\* the ids of the matched nodes of the answered query, by the path taken
matchedIdsOf(intent) ==
  IF Len(intent.specificGenes) > 0
    THEN LET anchors == explicitAnchors(intent.specificGenes, intent.limitToOne)
             related == findGenesRelatedToContext(join(intent.specificGenes, <<" ">>))
         IN {kg.nodes[k].id : k \in {j \in 1..Len(kg.nodes) :
               isAnchorOrByName(kg.nodes[j], {anchors[a].id : a \in 1..Len(anchors)},
                                intent.specificGenes)}}
            \cup {related[i].id : i \in 1..Len(related)}
  ELSE IF Len(collectAnchored(queryLowerOf, intent).nodes) > 0
    THEN {kg.nodes[findTargetEntity(queryLowerOf, intent.contextEntity)].id}
  ELSE directMatchIds(queryLowerOf)

\* a graph edge joins the node id to a node of ids
joinedTo(id, ids) ==
  \E e \in 1..Len(kg.edges) :
    \/ kg.edges[e].source = id /\ kg.edges[e].target \in ids
    \/ kg.edges[e].target = id /\ kg.edges[e].source \in ids

C24_OneHop ==
  Answered =>
    LET matchedIds == matchedIdsOf(intentOf)
    IN \A i \in 1..Len(result.nodes) :
         result.nodes[i].id \in matchedIds \/ joinedTo(result.nodes[i].id, matchedIds)

(***************************************************************************)
(* C25.  On the explicit-gene path the per-type counters are shared by     *)
(* all resolved genes of one call: the connected nodes of the result are,  *)
(* for each type, the first cap (2 or 3) distinct neighbours of that type  *)
(* in the order gene by gene, then edge by edge, so at most cap of a type  *)
(* are added over the whole call and a later gene gets a connected node of *)
(* a type only while the earlier genes left fewer than cap of them.        *)
(***************************************************************************)
\* the visits of the double loop: gene g, edge e, numbered in loop order
visitNo(g, e) == (g - 1) * Len(kg.edges) + e

\* the numbers of the visits that meet the node kg.nodes[c]
visitsOf(genes, c) ==
  {visitNo(g, e) : <<g, e>> \in
     {p \in (1..Len(genes)) \X (1..Len(kg.edges)) :
        connectedNodeIndex(kg.edges[p[2]], genes[p[1]].id) = c}}

Min(S) == CHOOSE x \in S : \A y \in S : x <= y

\* the nodes the double loop may add: neighbours of a gene, of a wanted
\* type, not among the nodes added before the loop
candidatesOf(genes, wantedTypes, preIds) ==
  {c \in 1..Len(kg.nodes) :
     /\ visitsOf(genes, c) # {}
     /\ arrayIncludes(wantedTypes, kg.nodes[c].type)
     /\ kg.nodes[c].id \notin preIds}

\* how many candidates of the type of c the loop meets before it meets c
rankOf(genes, cands, c) ==
  Cardinality({d \in cands : /\ kg.nodes[d].type = kg.nodes[c].type
                             /\ Min(visitsOf(genes, d)) < Min(visitsOf(genes, c))})

C25_SharedCounters ==
  Answered =>
    LET intent == intentOf
        genes == explicitAnchors(intent.specificGenes, intent.limitToOne)
        anchorIds == {genes[a].id : a \in 1..Len(genes)}
        preIds == {kg.nodes[k].id : k \in {j \in 1..Len(kg.nodes) :
                     isAnchorOrByName(kg.nodes[j], anchorIds, intent.specificGenes)}}
        cands == candidatesOf(genes, intent.wantedTypes, preIds)
        conn == SelectSeq(result.nodes, LAMBDA n : n.id \notin preIds)
        cap == explicitCap(intent.limitToOne)
    IN (Len(intent.specificGenes) > 0 /\ Len(genes) > 0)
       => /\ \A type \in NodeTypes : countOfType(conn, type) <= cap
          /\ \A i \in 1..Len(conn) : findNodeIndex(conn[i].id) \in cands
          /\ \A c \in cands :
               (\E i \in 1..Len(conn) : conn[i] = kg.nodes[c])
                 <=> rankOf(genes, cands, c) < cap
          /\ \A i, j \in 1..Len(conn) :
               i < j => Min(visitsOf(genes, findNodeIndex(conn[i].id)))
                          < Min(visitsOf(genes, findNodeIndex(conn[j].id)))

\* two genes resolved, the first has used up the cap of a type, and a
\* neighbour of that type of the second gene alone is left out
C25_Witness ==
  /\ Answered
  /\ LET intent == intentOf
         genes == explicitAnchors(intent.specificGenes, intent.limitToOne)
         cap == explicitCap(intent.limitToOne)
     IN /\ Len(intent.specificGenes) > 0
        /\ Len(genes) >= 2
        /\ \E type \in NodeTypes, c \in 1..Len(kg.nodes) :
             /\ arrayIncludes(intent.wantedTypes, type)
             /\ kg.nodes[c].type = type
             /\ kg.nodes[c].id \notin resultIds
             /\ \E e \in 1..Len(kg.edges) :
                  connectedNodeIndex(kg.edges[e], genes[2].id) = c
             /\ \A e \in 1..Len(kg.edges) :
                  connectedNodeIndex(kg.edges[e], genes[1].id) # c
             /\ Cardinality({i \in 1..Len(result.nodes) :
                  /\ result.nodes[i].type = type
                  /\ \E e \in 1..Len(kg.edges) :
                       connectedNodeIndex(kg.edges[e], genes[1].id)
                         = findNodeIndex(result.nodes[i].id)
                  /\ result.nodes[i].id \notin {genes[a].id : a \in 1..Len(genes)}}) >= 1
             /\ countOfType(SelectSeq(result.nodes,
                                      LAMBDA n : n.id \notin {genes[a].id : a \in 1..Len(genes)}),
                            type) >= cap

(***************************************************************************)
(* C26.  formatKnowledgeForAI writes one line per returned edge, source    *)
(* label, relation, target label, with every underscore of the relation    *)
(* replaced by a space, however many underscores the relation has.         *)
(***************************************************************************)
\* s with every occurrence of the character pat replaced
replaceAll(s, pat, by) == Tuple([i \in 1..Len(s) |-> IF s[i] = pat THEN by ELSE s[i]])

\* the line of an edge with all underscores of its relation replaced
relationLineSpaced(nodes, relation) ==
  <<"-"," ">> \o labelOrId(nodes, relation.source) \o <<" ">>
  \o replaceAll(relation.relation, "_", " ")
  \o <<" ">> \o labelOrId(nodes, relation.target) \o <<"\n">>

C26_UnderscoresReplaced ==
  pc = "formatted"
  => \A i \in 1..Len(result.relations) :
       includes(knowledgeContext, relationLineSpaced(result.nodes, result.relations[i]))

(***************************************************************************)
(* C27.  The message list alternates user message, reply, user message,    *)
(* reply, ..., starting with a user message; its length is odd exactly     *)
(* while isTyping is true, that is from the start of a turn to the reply   *)
(* of its request, and even otherwise.  (Between the reply and the         *)
(* setIsTyping(false) of the same handler run nothing is observed.)        *)
(***************************************************************************)
C27_Alternation ==
  /\ \A i \in 1..Len(messages) : ~messages[i].isUser <=> (i % 2 = 0)
  /\ pc # "finally" => (isTyping <=> Len(messages) % 2 = 1)
  /\ pc = "ready" => (pending # <<>> <=> Len(messages) % 2 = 1)

\* the first turn has ended with an error message and the second turn's
\* request is pending
C27_Witness ==
  /\ pc = "ready"
  /\ isTyping
  /\ Len(messages) = 3
  /\ ~messages[2].isUser /\ ~messages[2].hasGraphData
  /\ messages[3].isUser

(***************************************************************************)
(* C28.  All messages of a session have pairwise distinct ids, for every   *)
(* sequence of turns and every clock that does not go back: no message     *)
(* ever receives an id that an earlier message of the list has.            *)
(***************************************************************************)
C28_DistinctIds ==
  \A i, j \in 1..Len(messages) : i # j => messages[i].id # messages[j].id

(***************************************************************************)
(* C29.  When the classifier extracts an explicit gene name and none of    *)
(* the extracted names is the label of a gene-typed node, the result is    *)
(* empty: neither the anchor search nor the direct-match scan is tried,    *)
(* also when the query holds a disease label or other node labels.         *)
(***************************************************************************)
\* explicit gene names were extracted and none resolves to a gene node
noGeneResolves(intent) ==
  /\ Len(intent.specificGenes) > 0
  /\ \A k \in 1..Len(kg.nodes), g \in 1..Len(intent.specificGenes) :
       ~isGeneNamed(kg.nodes[k], intent.specificGenes[g])

joins(relation, anchorIds, id) ==
  \/ relation.source \in anchorIds /\ relation.target = id
  \/ relation.target \in anchorIds /\ relation.source = id

C30_EdgesOfAddedNodes ==
  Answered =>
    LET intent == intentOf
        genes == explicitAnchors(intent.specificGenes, intent.limitToOne)
        anchorIds == {genes[a].id : a \in 1..Len(genes)}
        preIds == {kg.nodes[k].id : k \in {j \in 1..Len(kg.nodes) :
                     isAnchorOrByName(kg.nodes[j], anchorIds, intent.specificGenes)}}
        conn == SelectSeq(result.nodes, LAMBDA n : n.id \notin preIds)
        nonAnchors == SelectSeq(result.nodes, LAMBDA n : n.id \notin anchorIds)
    IN (Len(intent.specificGenes) > 0 /\ Len(genes) > 0)
       => /\ Len(result.relations) = Len(conn)
          /\ Len(result.relations) <= Len(nonAnchors)
          /\ \A i \in 1..Len(result.relations) :
               /\ conn[i].id \notin anchorIds
               /\ joins(result.relations[i], anchorIds, conn[i].id)
          /\ \A i, j \in 1..Len(conn) : i # j => conn[i].id # conn[j].id

\* two anchor genes are joined by a graph edge, an added neighbour has two
\* parallel edges to its anchor, and neither the former nor the second of
\* the latter is returned
C30_Witness ==
  /\ Answered
  /\ LET intent == intentOf
         genes == explicitAnchors(intent.specificGenes, intent.limitToOne)
         anchorIds == {genes[a].id : a \in 1..Len(genes)}
     IN /\ Len(intent.specificGenes) > 0
        /\ \E e \in 1..Len(kg.edges) :
             /\ kg.edges[e].source \in anchorIds /\ kg.edges[e].target \in anchorIds
             /\ \A i \in 1..Len(result.relations) : result.relations[i] # kg.edges[e]
        /\ \E e, f \in 1..Len(kg.edges) :
             /\ e # f
             /\ kg.edges[e].source = kg.edges[f].source
             /\ kg.edges[e].target = kg.edges[f].target
             /\ kg.edges[e].source \in anchorIds
             /\ kg.edges[e].target \in resultIds \ anchorIds
             /\ \E i \in 1..Len(result.relations) : result.relations[i] = kg.edges[e]
             /\ \A i \in 1..Len(result.relations) : result.relations[i] # kg.edges[f]

====
